---- MODULE Spec2Model ----
(***************************************************************************)
(* Model of the two diagnostic tools of OpenSeaMap-AIS:                    *)
(*   - the Browser Session Monitor (ais_browser_test.py),                  *)
(*   - the Connectivity Prober (ais_diagnostic.py).                        *)
(* Every external call (browser, network, file system) is an input: its    *)
(* outcome is drawn from the outcomes the call can have (it returns, it    *)
(* raises an Exception, it is interrupted by a KeyboardInterrupt).         *)
(***************************************************************************)
EXTENDS Integers, Sequences, FiniteSets, TLC

(***************************************************************************)
(* Bounds of the model.                                                    *)
(***************************************************************************)
\* log entries the browser reports in one capture window (capture only)
MaxEvents == 3
\* log entries the browser reports in one capture window of a full run
MaxRunEvents == 2
\* log entries one get_log('performance') call returns
MaxBatch == 2
\* records of an analysed sequence (analyze_results on its own)
MaxRecords == 3
\* entries of the browser console log
MaxConsole == 1

(***************************************************************************)
(* Strings are sequences of characters, so that lower() and the substring  *)
(* test `keyword in url.lower()` are computed.                             *)
(***************************************************************************)
LowerChar(c) ==
    CASE c = "A" -> "a"
      [] c = "I" -> "i"
      [] c = "S" -> "s"
      [] c = "H" -> "h"
      [] c = "P" -> "p"
      [] OTHER -> c

Lower(s) == [i \in DOMAIN s |-> LowerChar(s[i])]

\* Python's `kw in s`
Contains(s, kw) ==
    \E i \in 0..(Len(s) - Len(kw)) :
        \A j \in 1..Len(kw) : s[i + j] = kw[j]

KwAis == <<"a", "i", "s">>
KwMarine == <<"m", "a", "r", "i", "n", "e">>
KwTraffic == <<"t", "r", "a", "f", "f", "i", "c">>
KwShip == <<"s", "h", "i", "p">>
KwVessel == <<"v", "e", "s", "s", "e", "l">>
KwGetais == <<"g", "e", "t", "a", "i", "s">>
KwMarinetraffic == KwMarine \o KwTraffic
KwAishub == <<"a", "i", "s", "h", "u", "b">>
KwAisstream == <<"a", "i", "s", "s", "t", "r", "e", "a", "m">>

RequestKeywords ==
    {KwAis, KwMarine, KwTraffic, KwShip, KwVessel,
     KwGetais, KwMarinetraffic, KwAishub, KwAisstream}

ResponseKeywords == {KwAis, KwMarine, KwTraffic, KwShip, KwVessel}

\* any(keyword in url.lower() for keyword in [...])
AnyKeyword(url, keywords) == \E kw \in keywords : Contains(Lower(url), kw)

(***************************************************************************)
(* Performance-log entries the browser may report.  An entry is what       *)
(* json.loads(log['message']) and the .get(..., default) calls read from   *)
(* it: a field the entry does not carry reads as its default ('' or 0).    *)
(***************************************************************************)
UrlGetAIS == <<"/", "g", "e", "t", "A", "I", "S">>
UrlTiles == <<"/", "t", "i", "l", "e", "s">>
Urls == {UrlGetAIS, UrlTiles}

RequestIds == {"", "1", "2"}

Entry(shape, method, id, url, status, statusText, errorText) ==
    [shape |-> shape, method |-> method, requestId |-> id, url |-> url,
     httpMethod |-> "GET", status |-> status, statusText |-> statusText,
     mimeType |-> "text/plain", errorText |-> errorText]

\* message is not JSON: json.JSONDecodeError
NotJsonEntry == Entry("notjson", "", "", <<>>, 0, "", "")
\* message is JSON of another shape (params is no object): any other Exception
BadShapeEntry == Entry("badshape", "Network.responseReceived", "1", UrlGetAIS, 200, "OK", "")
OtherEntry == Entry("json", "Page.loadEventFired", "", <<>>, 0, "", "")

SentEntries ==
    {Entry("json", "Network.requestWillBeSent", id, UrlGetAIS, 0, "", "") : id \in RequestIds}
    \cup {Entry("json", "Network.requestWillBeSent", "1", UrlTiles, 0, "", "")}

ResponseEntries ==
    {Entry("json", "Network.responseReceived", id, UrlGetAIS, st[1], st[2], "") :
        id \in {"1", "2"}, st \in {<<200, "OK">>, <<403, "Forbidden">>, <<500, "Server Error">>}}
    \cup {Entry("json", "Network.responseReceived", "1", UrlTiles, 200, "OK", "")}

FailedEntries ==
    {Entry("json", "Network.loadingFailed", id, <<>>, 0, "", err) :
        id \in {"1", "2"}, err \in {"", "net::ERR_FAILED"}}

LogEntries ==
    {NotJsonEntry, BadShapeEntry, OtherEntry}
    \cup SentEntries \cup ResponseEntries \cup FailedEntries

(***************************************************************************)
(* State.                                                                  *)
(***************************************************************************)
VARIABLES
    pc,                 \* position of the Monitor's control thread
    driver,             \* self.driver: "None" or "session"
    quitCalls,          \* number of driver.quit() calls so far
    sel,                \* find_ais_checkbox: index of the selector tried next
    toggle,             \* result of enable_ais_layer: "none", "toggled", "skipped"
    relevant_requests,  \* capture_network_logs: the Captured Request Records
    logs,               \* capture_network_logs: entries of the batch not yet processed
    delivered,          \* every entry get_log('performance') has returned, in order
    js_errors,          \* result of check_javascript_errors
    screenshot,         \* result of take_screenshot: "None" or "file"
    analysis,           \* result of analyze_results, or NoAnalysis
    reportsWritten,     \* number of JSON reports written
    results,            \* value returned by run_full_diagnostic
    propagating,        \* exception in flight: "none", "Exception", "KeyboardInterrupt"
    kbd,                \* a KeyboardInterrupt was delivered during the run
    exitCode,           \* process exit status, NoExit while running
    ais_checkbox,       \* enable_ais_layer: number of the strategy whose element
                        \* find_ais_checkbox returned, 0 when there is none
    phases,             \* the run phases entered so far, in order
    ppc,                \* position of the Prober's control thread
    dns_results,        \* check_dns_resolution: results of the domains checked so far
    osm_results,        \* test_openseamap_api_endpoints: results so far
    test_results,       \* main: the mapping from check name to Probe Result
    recommendations,    \* main: the list generate_recommendations returned
    printed,            \* the status lines printed so far
    attempts,           \* every network call and DNS lookup made so far, in order
    anomalies,          \* number of calls that did not end in the plain success
    report,             \* the JSON report written, NoReport before
    praised,            \* what escaped main: "none", "Exception", "KeyboardInterrupt"
    pexit,              \* the Prober's exit status, NoExit while running
    timeouts            \* the checks whose request ended in a timeout

monitorVars == <<pc, driver, quitCalls, sel, toggle, relevant_requests, logs, delivered,
                 js_errors, screenshot, analysis, reportsWritten, results, propagating,
                 kbd, exitCode, ais_checkbox, phases>>

proberVars == <<ppc, dns_results, osm_results, test_results, recommendations, printed,
                attempts, anomalies, report, praised, pexit, timeouts>>

vars == <<monitorVars, proberVars>>

NoAnalysis == [none |-> TRUE]
NoExit == 0 - 1
NoReport == [none |-> TRUE]
\* an empty Python dict
EmptyDict == <<>>

(***************************************************************************)
(* capture_network_logs: the body of `for log in logs`.                    *)
(***************************************************************************)
\* the record appended on Network.requestWillBeSent
NewRecord(log, now) ==
    [timestamp |-> now, url |-> log.url, method |-> log.httpMethod,
     requestId |-> log.requestId]

\* AttachResponse, had it rebuilt the record from the response
AttachResponseRebuilt(req, log) ==
    [timestamp |-> req.timestamp, url |-> req.url, method |-> req.method,
     requestId |-> req.requestId, status |-> log.status,
     status_text |-> log.statusText, content_type |-> log.mimeType]

\* req['status'] = ...; req['status_text'] = ...; req['content_type'] = ...
AttachResponse(req, log) ==
    [status |-> log.status, status_text |-> log.statusText,
     content_type |-> log.mimeType] @@ req

\* MarkFailed, had it set the flag only
MarkFailedFlagOnly(req, log) ==
    [failed |-> TRUE] @@ req

\* req['failed'] = True; req['error'] = error_text
MarkFailed(req, log) ==
    [failed |-> TRUE, error |-> log.errorText] @@ req

\* OnRequestWillBeSent, had it kept every request
OnRequestWillBeSentUnfiltered(reqs, log, now) ==
    Append(reqs, NewRecord(log, now))

OnRequestWillBeSent(reqs, log, now) ==
    IF AnyKeyword(log.url, RequestKeywords)
    THEN Append(reqs, NewRecord(log, now))
    ELSE reqs

\* OnResponseReceived, had it created the record it does not find
OnResponseReceivedUpsert(reqs, log) ==
    IF AnyKeyword(log.url, ResponseKeywords)
    THEN IF \E i \in DOMAIN reqs : reqs[i].requestId = log.requestId
         THEN [i \in DOMAIN reqs |->
                 IF reqs[i].requestId = log.requestId
                 THEN AttachResponse(reqs[i], log)
                 ELSE reqs[i]]
         ELSE Append(reqs, AttachResponse(NewRecord(log, 0), log))
    ELSE reqs

OnResponseReceived(reqs, log) ==
    IF AnyKeyword(log.url, ResponseKeywords)
    THEN [i \in DOMAIN reqs |->
            IF reqs[i].requestId = log.requestId
            THEN AttachResponse(reqs[i], log)
            ELSE reqs[i]]
    ELSE reqs

OnLoadingFailed(reqs, log) ==
    [i \in DOMAIN reqs |->
        IF reqs[i].requestId = log.requestId
        THEN MarkFailed(reqs[i], log)
        ELSE reqs[i]]

\* one iteration of the for loop, with its two except clauses
ProcessLog(reqs, log, now) ==
    IF log.shape = "notjson" THEN reqs
    ELSE IF log.shape = "badshape" THEN reqs
    ELSE IF log.method = "Network.requestWillBeSent" THEN OnRequestWillBeSent(reqs, log, now)
    ELSE IF log.method = "Network.responseReceived" THEN OnResponseReceived(reqs, log)
    ELSE IF log.method = "Network.loadingFailed" THEN OnLoadingFailed(reqs, log)
    ELSE reqs

(***************************************************************************)
(* analyze_results.                                                        *)
(***************************************************************************)
RootNotImplemented == "No AIS requests detected - layer may not be implemented or checkbox not functioning"
RootAuthentication == "AIS requests are being blocked (401/403) - API likely requires authentication"
RootConnectivity == "AIS requests are failing - check network connectivity or API endpoint changes"
RootRendering == "AIS requests successful - issue may be in data rendering/display"
RootIndeterminate == "Unable to determine - requests made but no responses captured"

\* Classify, had the status been tested before the failed flag
ClassifyStatusFirst(req) ==
    IF "status" \in DOMAIN req
    THEN IF 200 <= req.status /\ req.status < 300 THEN "successful"
         ELSE IF req.status \in {401, 403} THEN "blocked"
         ELSE IF "failed" \in DOMAIN req /\ req.failed THEN "failed"
         ELSE "http_error"
    ELSE IF "failed" \in DOMAIN req /\ req.failed THEN "failed"
    ELSE "none"

\* how the loop over network_requests counts one record
Classify(req) ==
    IF "failed" \in DOMAIN req /\ req.failed THEN "failed"
    ELSE IF "status" \in DOMAIN req
         THEN IF 200 <= req.status /\ req.status < 300 THEN "successful"
              ELSE IF req.status \in {401, 403} THEN "blocked"
              ELSE "http_error"
         ELSE "none"

\* the finding string appended for one record, <<>> when none is
Finding(req) ==
    CASE Classify(req) = "failed" ->
            <<"FAILED REQUEST", req.url,
              IF "error" \in DOMAIN req THEN req.error ELSE "Unknown error">>
      [] Classify(req) = "blocked" -> <<"BLOCKED REQUEST", req.url, req.status>>
      [] Classify(req) = "http_error" -> <<"HTTP ERROR", req.url, req.status>>
      [] OTHER -> <<>>

CountClass(reqs, classes) ==
    Cardinality({i \in DOMAIN reqs : Classify(reqs[i]) \in classes})

RECURSIVE Findings(_)
Findings(reqs) ==
    IF reqs = <<>> THEN <<>>
    ELSE LET rest == Findings(SubSeq(reqs, 1, Len(reqs) - 1))
             f == Finding(reqs[Len(reqs)])
         IN  IF f = <<>> THEN rest ELSE Append(rest, f)

\* RootCause, had it tested the failed count before the blocked count
RootCauseFailedFirst(found, successful, failed, blocked) ==
    IF found = 0 THEN RootNotImplemented
    ELSE IF failed > 0 THEN RootConnectivity
    ELSE IF blocked > 0 THEN RootAuthentication
    ELSE IF successful > 0 THEN RootRendering
    ELSE RootIndeterminate

\* the if/elif chain that determines the root cause
RootCause(found, successful, failed, blocked) ==
    IF found = 0 THEN RootNotImplemented
    ELSE IF blocked > 0 THEN RootAuthentication
    ELSE IF failed > 0 THEN RootConnectivity
    ELSE IF successful > 0 THEN RootRendering
    ELSE RootIndeterminate

analyze_results(network_requests, errors) ==
    LET found == Len(network_requests)
        successful == CountClass(network_requests, {"successful"})
        failed == CountClass(network_requests, {"failed", "http_error"})
        blocked == CountClass(network_requests, {"blocked"})
    IN  [ais_requests_found |-> found,
         successful_requests |-> successful,
         failed_requests |-> failed,
         blocked_requests |-> blocked,
         javascript_errors |-> Len(errors),
         findings |-> Findings(network_requests),
         root_cause |-> RootCause(found, successful, failed, blocked),
         raw_requests |-> network_requests,
         raw_errors |-> errors]

(***************************************************************************)
(* The Monitor: main and run_full_diagnostic.                              *)
(***************************************************************************)
\* how an external call ends
Outcomes == {"ok", "raise", "interrupt"}

\* number of entries of possible_selectors
NumSelectors == 5

ConsoleLevels == {"SEVERE", "WARNING"}

\* the Prober before it is started
ProberStart ==
    /\ ppc = "dns"
    /\ dns_results = EmptyDict
    /\ osm_results = EmptyDict
    /\ test_results = EmptyDict
    /\ recommendations = <<>>
    /\ printed = <<>>
    /\ attempts = <<>>
    /\ anomalies = 0
    /\ report = NoReport
    /\ praised = "none"
    /\ pexit = NoExit
    /\ timeouts = {}

\* the Monitor before it is started
MonitorStart ==
    /\ pc = "start"
    /\ driver = "None"
    /\ quitCalls = 0
    /\ sel = 0
    /\ toggle = "none"
    /\ relevant_requests = <<>>
    /\ logs = <<>>
    /\ delivered = <<>>
    /\ js_errors = <<>>
    /\ screenshot = "None"
    /\ analysis = NoAnalysis
    /\ reportsWritten = 0
    /\ results = "none"
    /\ propagating = "none"
    /\ kbd = FALSE
    /\ exitCode = NoExit
    /\ ais_checkbox = 0
    /\ phases = <<"not started">>

Init == ProberStart /\ MonitorStart

\* a KeyboardInterrupt leaves the try block of run_full_diagnostic
Interrupted ==
    /\ propagating' = "KeyboardInterrupt"
    /\ kbd' = TRUE
    /\ pc' = "finally"

\* setup_driver, called before the try block; on failure the error dict is returned
SetupDriver ==
    /\ pc = "start"
    /\ UNCHANGED proberVars
    /\ \E o \in Outcomes :
         CASE o = "ok" ->
                /\ driver' = "session"
                /\ pc' = "load"
                /\ UNCHANGED <<results, propagating, kbd>>
           [] o = "raise" ->
                /\ results' = "error_webdriver"
                /\ pc' = "main"
                /\ UNCHANGED <<driver, propagating, kbd>>
           [] o = "interrupt" ->
                /\ propagating' = "KeyboardInterrupt"
                /\ kbd' = TRUE
                /\ pc' = "main"
                /\ UNCHANGED <<driver, results>>
    /\ UNCHANGED <<quitCalls, sel, toggle, relevant_requests, logs, delivered,
                   js_errors, screenshot, analysis, reportsWritten, exitCode>>
    /\ phases' = IF driver' = "session" THEN Append(phases, "session active") ELSE phases
    /\ UNCHANGED ais_checkbox

\* LoadOpenSeaMap, had a failed page load been written to a report as well
LoadOpenSeaMapReporting ==
    /\ pc = "load"
    /\ UNCHANGED proberVars
    /\ \E o \in Outcomes :
         CASE o = "ok" ->
                /\ pc' = "view_menu"
                /\ UNCHANGED <<results, propagating, kbd, reportsWritten>>
           [] o = "raise" ->
                /\ results' = "error_load"
                /\ reportsWritten' = reportsWritten + 1
                /\ pc' = "finally"
                /\ UNCHANGED <<propagating, kbd>>
           [] o = "interrupt" ->
                /\ Interrupted
                /\ UNCHANGED <<results, reportsWritten>>
    /\ UNCHANGED <<driver, quitCalls, sel, toggle, relevant_requests, logs, delivered,
                   js_errors, screenshot, analysis, exitCode>>
    /\ phases' = IF pc' = "view_menu" THEN Append(phases, "navigated") ELSE phases
    /\ UNCHANGED ais_checkbox

\* load_openseamap: driver.get and the wait for the map container
LoadOpenSeaMap ==
    /\ pc = "load"
    /\ UNCHANGED proberVars
    /\ \E o \in Outcomes :
         CASE o = "ok" ->
                /\ pc' = "view_menu"
                /\ UNCHANGED <<results, propagating, kbd>>
           [] o = "raise" ->
                /\ results' = "error_load"
                /\ pc' = "finally"
                /\ UNCHANGED <<propagating, kbd>>
           [] o = "interrupt" ->
                /\ Interrupted
                /\ UNCHANGED results
    /\ UNCHANGED <<driver, quitCalls, sel, toggle, relevant_requests, logs, delivered,
                   js_errors, screenshot, analysis, reportsWritten, exitCode>>
    /\ phases' = IF pc' = "view_menu" THEN Append(phases, "navigated") ELSE phases
    /\ UNCHANGED ais_checkbox

\* enable_ais_layer: the View menu lookup and click under the bare `except:`
OpenViewMenu ==
    /\ pc = "view_menu"
    /\ UNCHANGED proberVars
    /\ \E o \in Outcomes :
         /\ kbd' = (kbd \/ o = "interrupt")
         /\ pc' = "find_checkbox"
         /\ sel' = 1
    /\ UNCHANGED <<driver, quitCalls, toggle, relevant_requests, logs, delivered,
                   js_errors, screenshot, analysis, reportsWritten, results,
                   propagating, exitCode>>
    /\ UNCHANGED <<ais_checkbox, phases>>

\* TrySelector, had the loop gone on after a match and returned the last one
TrySelectorLastMatch ==
    /\ pc = "find_checkbox"
    /\ UNCHANGED proberVars
    /\ \E o \in {"found", "nosuch", "raise", "interrupt"} :
         CASE o = "found" ->
                IF sel < NumSelectors
                THEN /\ sel' = sel + 1
                     /\ ais_checkbox' = sel
                     /\ UNCHANGED <<pc, toggle, propagating, kbd>>
                ELSE /\ sel' = 0
                     /\ ais_checkbox' = sel
                     /\ pc' = "click"
                     /\ UNCHANGED <<toggle, propagating, kbd>>
           [] o = "nosuch" ->
                IF sel < NumSelectors
                THEN /\ sel' = sel + 1
                     /\ UNCHANGED <<pc, toggle, propagating, kbd, ais_checkbox>>
                ELSE /\ sel' = 0
                     /\ toggle' = IF ais_checkbox = 0 THEN "skipped" ELSE toggle
                     /\ pc' = IF ais_checkbox = 0 THEN "capture_loop" ELSE "click"
                     /\ UNCHANGED <<propagating, kbd, ais_checkbox>>
           [] o = "raise" ->
                /\ sel' = 0
                /\ ais_checkbox' = 0
                /\ toggle' = "skipped"
                /\ pc' = "capture_loop"
                /\ UNCHANGED <<propagating, kbd>>
           [] o = "interrupt" ->
                /\ Interrupted
                /\ sel' = 0
                /\ ais_checkbox' = 0
                /\ UNCHANGED toggle
    /\ phases' = IF pc' = "capture_loop"
                 THEN phases \o <<"toggle skipped", "capturing">>
                 ELSE phases
    /\ UNCHANGED <<driver, quitCalls, relevant_requests, logs, delivered,
                   js_errors, screenshot, analysis, reportsWritten, results, exitCode>>

\* find_ais_checkbox: one iteration of the loop over possible_selectors
TrySelector ==
    /\ pc = "find_checkbox"
    /\ UNCHANGED proberVars
    /\ \E o \in {"found", "nosuch", "raise", "interrupt"} :
         CASE o = "found" ->
                /\ pc' = "click"
                /\ sel' = 0
                /\ UNCHANGED <<toggle, propagating, kbd>>
           [] o = "nosuch" ->
                IF sel < NumSelectors
                THEN /\ sel' = sel + 1
                     /\ UNCHANGED <<pc, toggle, propagating, kbd>>
                ELSE /\ sel' = 0
                     /\ toggle' = "skipped"
                     /\ pc' = "capture_loop"
                     /\ UNCHANGED <<propagating, kbd>>
           [] o = "raise" ->
                /\ sel' = 0
                /\ toggle' = "skipped"
                /\ pc' = "capture_loop"
                /\ UNCHANGED <<propagating, kbd>>
           [] o = "interrupt" ->
                /\ Interrupted
                /\ sel' = 0
                /\ UNCHANGED toggle
    /\ UNCHANGED <<driver, quitCalls, relevant_requests, logs, delivered,
                   js_errors, screenshot, analysis, reportsWritten, results, exitCode>>
    /\ ais_checkbox' = IF pc' = "click" THEN sel ELSE 0
    /\ phases' = IF pc' = "capture_loop"
                 THEN phases \o <<"toggle skipped", "capturing">>
                 ELSE phases

\* ClickCheckbox, had a failed click made the run load the page again
ClickCheckboxReloading ==
    /\ pc = "click"
    /\ UNCHANGED proberVars
    /\ \E o \in Outcomes :
         CASE o = "ok" ->
                /\ toggle' = "toggled"
                /\ pc' = "capture_loop"
                /\ UNCHANGED <<propagating, kbd>>
           [] o = "raise" ->
                /\ pc' = "load"
                /\ UNCHANGED <<toggle, propagating, kbd>>
           [] o = "interrupt" ->
                /\ Interrupted
                /\ UNCHANGED toggle
    /\ UNCHANGED <<driver, quitCalls, sel, relevant_requests, logs, delivered,
                   js_errors, screenshot, analysis, reportsWritten, results, exitCode>>
    /\ ais_checkbox' = 0
    /\ phases' = IF pc' = "capture_loop"
                 THEN phases \o <<"layer toggled", "capturing">>
                 ELSE phases

\* enable_ais_layer: is_selected and click on the checkbox found
ClickCheckbox ==
    /\ pc = "click"
    /\ UNCHANGED proberVars
    /\ \E o \in Outcomes :
         CASE o = "ok" ->
                /\ toggle' = "toggled"
                /\ pc' = "capture_loop"
                /\ UNCHANGED <<propagating, kbd>>
           [] o = "raise" ->
                /\ toggle' = "skipped"
                /\ pc' = "capture_loop"
                /\ UNCHANGED <<propagating, kbd>>
           [] o = "interrupt" ->
                /\ Interrupted
                /\ UNCHANGED toggle
    /\ UNCHANGED <<driver, quitCalls, sel, relevant_requests, logs, delivered,
                   js_errors, screenshot, analysis, reportsWritten, results, exitCode>>
    /\ ais_checkbox' = 0
    /\ phases' = IF pc' = "capture_loop"
                 THEN phases \o <<IF toggle' = "toggled" THEN "layer toggled"
                                  ELSE "toggle skipped", "capturing">>
                 ELSE phases

\* capture_network_logs: the loop test and self.driver.get_log('performance'),
\* which no try block encloses
GetLog(limit) ==
    /\ pc = "capture_loop"
    /\ UNCHANGED proberVars
    /\ \E o \in Outcomes :
         CASE o = "ok" ->
                \E n \in 0..MaxBatch :
                  /\ Len(delivered) + n <= limit
                  /\ \E batch \in [1..n -> LogEntries] :
                       /\ logs' = batch
                       /\ delivered' = delivered \o batch
                       /\ pc' = IF n = 0 THEN "capture_loop" ELSE "capture_for"
                       /\ UNCHANGED <<propagating, kbd>>
           [] o = "raise" ->
                /\ propagating' = "Exception"
                /\ pc' = "finally"
                /\ UNCHANGED <<logs, delivered, kbd>>
           [] o = "interrupt" ->
                /\ Interrupted
                /\ UNCHANGED <<logs, delivered>>
    /\ UNCHANGED <<driver, quitCalls, sel, toggle, relevant_requests, js_errors,
                   screenshot, analysis, reportsWritten, results, exitCode>>
    /\ UNCHANGED <<ais_checkbox, phases>>

\* capture_network_logs: one iteration of `for log in logs`
ProcessLogStep ==
    /\ pc = "capture_for"
    /\ UNCHANGED proberVars
    /\ logs # <<>>
    /\ relevant_requests' =
         ProcessLog(relevant_requests, Head(logs), Len(delivered) - Len(logs) + 1)
    /\ logs' = Tail(logs)
    /\ pc' = IF Tail(logs) = <<>> THEN "capture_loop" ELSE "capture_for"
    /\ UNCHANGED <<driver, quitCalls, sel, toggle, delivered, js_errors, screenshot,
                   analysis, reportsWritten, results, propagating, kbd, exitCode>>
    /\ UNCHANGED <<ais_checkbox, phases>>

\* capture_network_logs: the duration has elapsed, relevant_requests is returned
EndCapture ==
    /\ pc = "capture_loop"
    /\ UNCHANGED proberVars
    /\ pc' = "js_errors"
    /\ UNCHANGED <<driver, quitCalls, sel, toggle, relevant_requests, logs, delivered,
                   js_errors, screenshot, analysis, reportsWritten, results,
                   propagating, kbd, exitCode>>
    /\ UNCHANGED <<ais_checkbox, phases>>

\* check_javascript_errors
CheckJavascriptErrors ==
    /\ pc = "js_errors"
    /\ UNCHANGED proberVars
    /\ \E o \in Outcomes :
         CASE o = "ok" ->
                \E n \in 0..MaxConsole : \E console \in [1..n -> ConsoleLevels] :
                  /\ js_errors' = SelectSeq(console, LAMBDA l : l \in {"SEVERE", "ERROR"})
                  /\ pc' = "screenshot"
                  /\ UNCHANGED <<propagating, kbd>>
           [] o = "raise" ->
                /\ js_errors' = <<>>
                /\ pc' = "screenshot"
                /\ UNCHANGED <<propagating, kbd>>
           [] o = "interrupt" ->
                /\ Interrupted
                /\ UNCHANGED js_errors
    /\ UNCHANGED <<driver, quitCalls, sel, toggle, relevant_requests, logs, delivered,
                   screenshot, analysis, reportsWritten, results, exitCode>>
    /\ UNCHANGED <<ais_checkbox, phases>>

\* take_screenshot
TakeScreenshot ==
    /\ pc = "screenshot"
    /\ UNCHANGED proberVars
    /\ \E o \in Outcomes :
         CASE o = "ok" ->
                /\ screenshot' = "file"
                /\ pc' = "analyze"
                /\ UNCHANGED <<propagating, kbd>>
           [] o = "raise" ->
                /\ screenshot' = "None"
                /\ pc' = "analyze"
                /\ UNCHANGED <<propagating, kbd>>
           [] o = "interrupt" ->
                /\ Interrupted
                /\ UNCHANGED screenshot
    /\ UNCHANGED <<driver, quitCalls, sel, toggle, relevant_requests, logs, delivered,
                   js_errors, analysis, reportsWritten, results, exitCode>>
    /\ UNCHANGED <<ais_checkbox, phases>>

\* analysis = self.analyze_results(...); analysis['screenshot'] = screenshot
Analyze ==
    /\ pc = "analyze"
    /\ UNCHANGED proberVars
    /\ analysis' = [screenshot |-> screenshot] @@ analyze_results(relevant_requests, js_errors)
    /\ pc' = "report"
    /\ UNCHANGED <<driver, quitCalls, sel, toggle, relevant_requests, logs, delivered,
                   js_errors, screenshot, reportsWritten, results, propagating, kbd,
                   exitCode>>
    /\ phases' = Append(phases, "analyzed")
    /\ UNCHANGED ais_checkbox

\* the report file is written and the analysis returned
WriteReport ==
    /\ pc = "report"
    /\ UNCHANGED proberVars
    /\ \E o \in Outcomes :
         CASE o = "ok" ->
                /\ reportsWritten' = reportsWritten + 1
                /\ results' = "analysis"
                /\ pc' = "finally"
                /\ UNCHANGED <<propagating, kbd>>
           [] o = "raise" ->
                /\ propagating' = "Exception"
                /\ pc' = "finally"
                /\ UNCHANGED <<reportsWritten, results, kbd>>
           [] o = "interrupt" ->
                /\ Interrupted
                /\ UNCHANGED <<reportsWritten, results>>
    /\ UNCHANGED <<driver, quitCalls, sel, toggle, relevant_requests, logs, delivered,
                   js_errors, screenshot, analysis, exitCode>>
    /\ UNCHANGED <<ais_checkbox, phases>>

\* Finally, had the session been closed at the end of the try block only
FinallyOnReturnOnly ==
    /\ pc = "finally"
    /\ UNCHANGED proberVars
    /\ driver # "None"
    /\ quitCalls' = IF propagating = "none" THEN quitCalls + 1 ELSE quitCalls
    /\ pc' = "main"
    /\ UNCHANGED <<driver, sel, toggle, relevant_requests, logs, delivered, js_errors,
                   screenshot, analysis, reportsWritten, results, propagating, kbd,
                   exitCode>>
    /\ phases' = IF propagating = "none" THEN Append(phases, "session released")
                 ELSE phases
    /\ UNCHANGED ais_checkbox

\* the finally clause: self.driver.quit(); what it raises replaces the
\* return value or the exception in flight
Finally ==
    /\ pc = "finally"
    /\ UNCHANGED proberVars
    /\ driver # "None"
    /\ quitCalls' = quitCalls + 1
    /\ \E o \in Outcomes :
         CASE o = "ok" ->
                UNCHANGED <<results, propagating, kbd>>
           [] o = "raise" ->
                /\ results' = "none"
                /\ propagating' = "Exception"
                /\ UNCHANGED kbd
           [] o = "interrupt" ->
                /\ results' = "none"
                /\ propagating' = "KeyboardInterrupt"
                /\ kbd' = TRUE
    /\ pc' = "main"
    /\ UNCHANGED <<driver, sel, toggle, relevant_requests, logs, delivered, js_errors,
                   screenshot, analysis, reportsWritten, exitCode>>
    /\ phases' = Append(phases, "session released")
    /\ UNCHANGED ais_checkbox

\* ExitStatus, had it looked at the failed count only
ExitStatusFailedOnly(raised, returned, summary) ==
    IF raised = "KeyboardInterrupt" THEN 130
    ELSE IF raised = "Exception" THEN 1
    ELSE IF returned \in {"error_webdriver", "error_load"} THEN 1
    ELSE IF summary.failed_requests > 0 THEN 2
    ELSE 0

\* main: the exit status chosen from what run_full_diagnostic returned or raised
ExitStatus(raised, returned, summary) ==
    IF raised = "KeyboardInterrupt" THEN 130
    ELSE IF raised = "Exception" THEN 1
    ELSE IF returned \in {"error_webdriver", "error_load"} THEN 1
    ELSE IF summary.failed_requests > 0 \/ summary.blocked_requests > 0 THEN 2
    ELSE 0

MainExit ==
    /\ pc = "main"
    /\ UNCHANGED proberVars
    /\ exitCode' = ExitStatus(propagating, results, analysis)
    /\ pc' = "exited"
    /\ UNCHANGED <<driver, quitCalls, sel, toggle, relevant_requests, logs, delivered,
                   js_errors, screenshot, analysis, reportsWritten, results,
                   propagating, kbd>>
    /\ UNCHANGED <<ais_checkbox, phases>>

Next ==
    \/ SetupDriver
    \/ LoadOpenSeaMap
    \/ OpenViewMenu
    \/ TrySelector
    \/ ClickCheckbox
    \/ GetLog(MaxRunEvents)
    \/ ProcessLogStep
    \/ EndCapture
    \/ CheckJavascriptErrors
    \/ TakeScreenshot
    \/ Analyze
    \/ WriteReport
    \/ Finally
    \/ MainExit

Spec == Init /\ [][Next]_vars

(***************************************************************************)
(* capture_network_logs on its own: a session that has loaded the page     *)
(* and reports up to MaxEvents log entries.                                *)
(***************************************************************************)
CaptureInit ==
    /\ ProberStart
    /\ pc = "capture_loop"
    /\ driver = "session"
    /\ quitCalls = 0
    /\ sel = 0
    /\ toggle \in {"toggled", "skipped"}
    /\ relevant_requests = <<>>
    /\ logs = <<>>
    /\ delivered = <<>>
    /\ js_errors = <<>>
    /\ screenshot = "None"
    /\ analysis = NoAnalysis
    /\ reportsWritten = 0
    /\ results = "none"
    /\ propagating = "none"
    /\ kbd = FALSE
    /\ exitCode = NoExit
    /\ ais_checkbox = 0
    /\ phases = <<"not started", "session active", "navigated",
                  IF toggle = "toggled" THEN "layer toggled" ELSE "toggle skipped",
                  "capturing">>

CaptureNext ==
    \/ GetLog(MaxEvents)
    \/ ProcessLogStep
    \/ EndCapture

CaptureSpec == CaptureInit /\ [][CaptureNext]_vars

(***************************************************************************)
(* analyze_results on its own: any sequence of up to MaxRecords records    *)
(* a capture window can leave behind.                                      *)
(***************************************************************************)
RecordIds == <<"1", "2", "3", "4", "5">>

\* the optional fields of a record: none, a response, a failure, or both
ResponseFields ==
    {<<>>}
    \cup {[status |-> st, status_text |-> "", content_type |-> "text/plain"] :
            st \in {0, 200, 204, 301, 401, 403, 404, 500}}

FailureFields == {<<>>, [failed |-> TRUE, error |-> "net::ERR_FAILED"]}

RecordAt(i, resp, fail) ==
    fail @@ resp @@
    [timestamp |-> i, url |-> UrlGetAIS, method |-> "GET", requestId |-> RecordIds[i]]

AnalyzeInit ==
    /\ ProberStart
    /\ pc = "analyze"
    /\ driver = "session"
    /\ quitCalls = 0
    /\ sel = 0
    /\ toggle = "skipped"
    /\ \E n \in 0..MaxRecords :
         \E choice \in [1..n -> ResponseFields \X FailureFields] :
            relevant_requests = [i \in 1..n |-> RecordAt(i, choice[i][1], choice[i][2])]
    /\ logs = <<>>
    /\ delivered = <<>>
    /\ js_errors \in {<<>>, <<"SEVERE">>}
    /\ screenshot \in {"None", "file"}
    /\ analysis = NoAnalysis
    /\ reportsWritten = 0
    /\ results = "none"
    /\ propagating = "none"
    /\ kbd = FALSE
    /\ exitCode = NoExit
    /\ ais_checkbox = 0
    /\ phases = <<"not started", "session active", "navigated", "toggle skipped",
                  "capturing">>

AnalyzeNext == Analyze

AnalyzeSpec == AnalyzeInit /\ [][AnalyzeNext]_vars

(***************************************************************************)
(* The Prober: outcomes of one network call.                               *)
(***************************************************************************)
\* calls of one run that may end otherwise than in the plain success
MaxAnomalies == 3

Resp(status, body) == <<"response", status, body>>
Exc(kind) == <<kind, 0, "">>

\* the parts of an outcome: what the request ended in, the HTTP status and
\* what the body holds
Kind(o) == o[1]
Status(o) == o[2]
Body(o) == o[3]

\* requests.exceptions: ConnectTimeout is both a ConnectionError and a Timeout
IsTimeout(o) == Kind(o) \in {"ReadTimeout", "ConnectTimeout"}
IsConnectionError(o) == Kind(o) \in {"ConnectionError", "ConnectTimeout"}

\* str(e) of an exception, as a sequence of segments
ExcText(kind) ==
    CASE kind = "ReadTimeout" ->
            <<"HTTPSConnectionPool(host, port): ", "Read timed out. (read timeout=10)">>
      [] kind = "ConnectTimeout" ->
            <<"HTTPSConnectionPool(host, port): ", "Max retries exceeded with url: ",
              "(Caused by ConnectTimeoutError(connect timeout=10))">>
      [] kind = "ConnectionError" ->
            <<"HTTPSConnectionPool(host, port): ", "Max retries exceeded with url: ",
              "(Caused by NameResolutionError)">>
      [] OTHER -> <<"unexpected error">>

\* number of characters of a segment of str(e)
SegLen(seg) ==
    CASE seg = "HTTPSConnectionPool(host, port): " -> 58
      [] seg = "Read timed out. (read timeout=10)" -> 33
      [] seg = "Max retries exceeded with url: " -> 36
      [] seg = "(Caused by ConnectTimeoutError(connect timeout=10))" -> 170
      [] seg = "(Caused by NameResolutionError)" -> 150
      [] OTHER -> 16

\* text[:n]: the segments that fit, and a mark for the one that is cut
RECURSIVE Truncate(_, _)
Truncate(text, n) ==
    IF text = <<>> THEN <<>>
    ELSE IF SegLen(Head(text)) <= n
         THEN <<Head(text)>> \o Truncate(Tail(text), n - SegLen(Head(text)))
         ELSE IF n > 0 THEN <<"(cut)">> ELSE <<>>

\* f"Error: {str(e)[:100]}"
ErrorMessage(o) == <<"Error: ">> \o Truncate(ExcText(Kind(o)), 100)

HttpStatus(o) == <<"HTTP ", ToString(Status(o))>>

(***************************************************************************)
(* The Prober: the checks.  A Probe Result is the tuple <<success, message>>.*)
(***************************************************************************)
test_marinetraffic_tiles(o) ==
    IF Kind(o) = "response"
    THEN IF Status(o) = 200
         THEN IF Body(o) = "image"
              THEN <<TRUE, <<"Tile service responding (HTTP ", "200", ")">>>>
              ELSE <<FALSE, <<"Unexpected content type: ", Body(o)>>>>
         ELSE IF Status(o) = 403
              THEN <<FALSE, <<"Access denied (HTTP 403) - API likely commercialized">>>>
         ELSE IF Status(o) = 401
              THEN <<FALSE, <<"Authentication required (HTTP 401) - API key needed">>>>
         ELSE <<FALSE, HttpStatus(o) \o <<": ", Body(o)>>>>
    ELSE IF IsTimeout(o) THEN <<FALSE, <<"Request timeout (10s)">>>>
    ELSE IF IsConnectionError(o)
         THEN <<FALSE, <<"Connection error: ">> \o Truncate(ExcText(Kind(o)), 100)>>
    ELSE <<FALSE, ErrorMessage(o)>>

test_marinetraffic_api_simple(o) ==
    IF Kind(o) = "response"
    THEN IF Status(o) = 200
         THEN <<TRUE, <<"MarineTraffic website accessible (HTTP ", "200", ")">>>>
         ELSE <<FALSE, HttpStatus(o)>>
    ELSE <<FALSE, ErrorMessage(o)>>

test_aishub_api(o) ==
    IF Kind(o) = "response"
    THEN IF Status(o) = 200
         THEN CASE Body(o) = "json_list" -> <<TRUE, <<"AISHub API responding with data">>>>
                [] Body(o) = "json_error" -> <<FALSE, <<"API error: ", Body(o)>>>>
                [] Body(o) = "not_json" -> <<FALSE, <<"Invalid JSON response: ", Body(o)>>>>
                [] OTHER -> <<TRUE, <<"AISHub endpoint accessible (authentication likely required)">>>>
         ELSE IF Status(o) = 401
              THEN <<FALSE, <<"Authentication required - valid credentials needed">>>>
         ELSE <<FALSE, HttpStatus(o)>>
    ELSE <<FALSE, ErrorMessage(o)>>

test_aisstream_websocket(o) ==
    IF Kind(o) = "response"
    THEN IF Status(o) = 200
         THEN <<TRUE, <<"AISstream.io website accessible (WebSocket API available)">>>>
         ELSE <<FALSE, HttpStatus(o)>>
    ELSE <<FALSE, ErrorMessage(o)>>

\* one endpoint of test_openseamap_api_endpoints; accepted: the status codes
\* that count as success for it
EndpointResult(o, accepted) ==
    IF Kind(o) = "response"
    THEN <<Status(o) \in accepted, HttpStatus(o)>>
    ELSE <<FALSE, ErrorMessage(o)>>

\* one domain of check_dns_resolution
DnsResult(o) ==
    CASE o = "ok" -> <<TRUE, <<"Resolves to ", "ip">>>>
      [] o = "gaierror" -> <<FALSE, <<"DNS resolution failed">>>>
      [] OTHER -> <<FALSE, <<"Error: ", "unexpected error">>>>

analyze_github_issues(o) ==
    IF Kind(o) = "response"
    THEN IF Status(o) = 200
         THEN IF Body(o) = "ais_issues"
              THEN <<TRUE, <<"Found AIS-related issues">>>>
              ELSE <<TRUE, <<"No AIS-specific issues found">>>>
         ELSE <<FALSE, HttpStatus(o)>>
    ELSE <<FALSE, ErrorMessage(o)>>

(***************************************************************************)
(* generate_recommendations.                                               *)
(***************************************************************************)
RecTiles == "MarineTraffic tile service is not accessible."
RecAishub == "AISHub.net API is accessible. Consider migrating to AISHub."
RecAisstream == "AISstream.io is accessible. Consider this as a potential alternative data source."
RecServer == "OpenSeaMap API endpoints are not responding. This could indicate server issues."
RecDefault == "All services appear accessible. The issue may be in the client-side JavaScript."

\* bool(x) of a tuple: a tuple is true when it is not empty
Truthy(t) == Len(t) > 0

\* any(d.values())
AnyValue(d) == \E k \in DOMAIN d : Truthy(d[k])


\* generate_recommendations, had it appended the default message to every list
generate_recommendationsDefaultAppended(tr) ==
    LET r1 == IF ~tr["marinetraffic_tiles"][1] THEN <<RecTiles>> ELSE <<>>
        r2 == IF tr["aishub_api"][1] THEN Append(r1, RecAishub) ELSE r1
        r3 == IF tr["aisstream"][1] THEN Append(r2, RecAisstream) ELSE r2
        r4 == IF ~AnyValue(tr["openseamap_endpoints"]) THEN Append(r3, RecServer) ELSE r3
    IN  Append(r4, RecDefault)

generate_recommendations(tr) ==
    LET r1 == IF ~tr["marinetraffic_tiles"][1] THEN <<RecTiles>> ELSE <<>>
        r2 == IF tr["aishub_api"][1] THEN Append(r1, RecAishub) ELSE r1
        r3 == IF tr["aisstream"][1] THEN Append(r2, RecAisstream) ELSE r2
        r4 == IF ~AnyValue(tr["openseamap_endpoints"]) THEN Append(r3, RecServer) ELSE r3
    IN  IF r4 = <<>> THEN <<RecDefault>> ELSE r4

(***************************************************************************)
(* The Prober: main.                                                       *)
(***************************************************************************)
CriticalDomains ==
    <<"map.openseamap.org", "tiles.marinetraffic.com", "data.aishub.net", "aisstream.io">>

DnsOutcomes == {"ok", "gaierror", "error"}

TileOutcomes ==
    {Resp(200, "image"), Resp(200, "html"), Resp(403, ""), Resp(401, ""), Resp(500, ""),
     Exc("ReadTimeout"), Exc("ConnectTimeout"), Exc("ConnectionError"), Exc("Exception")}

HttpOutcomes ==
    {Resp(200, ""), Resp(403, ""), Resp(400, ""), Resp(500, ""),
     Exc("ReadTimeout"), Exc("ConnectTimeout"), Exc("ConnectionError")}

AishubOutcomes ==
    {Resp(200, "json_list"), Resp(200, "json_error"), Resp(200, "json_other"),
     Resp(200, "not_json"), Resp(401, ""), Resp(500, ""),
     Exc("ReadTimeout"), Exc("ConnectTimeout")}

GithubOutcomes ==
    {Resp(200, "ais_issues"), Resp(200, "no_ais_issues"), Resp(403, ""),
     Exc("ReadTimeout"), Exc("ConnectTimeout")}

\* d[k] = v
Put(d, k, v) == (k :> v) @@ d

\* print_status("OK" if success else "FAIL", f"{label}: {message}")
StatusLine(label, result) == <<IF result[1] THEN "OK" ELSE "FAIL", label, result[2]>>

\* the outcome o keeps the run within MaxAnomalies
WithinAnomalies(o, plain) == o = plain \/ anomalies < MaxAnomalies
CountAnomaly(o, plain) == IF o = plain THEN anomalies ELSE anomalies + 1

\* a KeyboardInterrupt during the call `what` leaves main
ProberInterrupted(what) ==
    /\ attempts' = Append(attempts, what)
    /\ praised' = "KeyboardInterrupt"
    /\ ppc' = "handler"
    /\ UNCHANGED <<dns_results, osm_results, test_results, recommendations, printed,
                   anomalies, report, pexit, timeouts>>

\* check_dns_resolution: one iteration of the loop over the domains; the
\* status lines are printed after the last one
CheckDns ==
    /\ ppc = "dns"
    /\ UNCHANGED monitorVars
    /\ LET i == Cardinality(DOMAIN dns_results) + 1
           domain == CriticalDomains[i]
       IN  \/ \E o \in DnsOutcomes :
                /\ WithinAnomalies(o, "ok")
                /\ anomalies' = CountAnomaly(o, "ok")
                /\ dns_results' = Put(dns_results, domain, DnsResult(o))
                /\ attempts' = Append(attempts, domain)
                /\ IF i = Len(CriticalDomains)
                   THEN /\ printed' = printed \o
                             [j \in 1..Len(CriticalDomains) |->
                                StatusLine(CriticalDomains[j], dns_results'[CriticalDomains[j]])]
                        /\ ppc' = "tiles"
                   ELSE UNCHANGED <<printed, ppc>>
                /\ UNCHANGED <<osm_results, test_results, recommendations, report,
                               praised, pexit, timeouts>>
           \/ ProberInterrupted(domain)

\* one check of main that stores its result under `key` and prints it;
\* result[o] is what the check returns when its request ends in o
Probe(at, next, key, label, outcomes, plain, result) ==
    /\ ppc = at
    /\ UNCHANGED monitorVars
    /\ \/ \E o \in outcomes :
            /\ WithinAnomalies(o, plain)
            /\ anomalies' = CountAnomaly(o, plain)
            /\ test_results' = Put(test_results, key, result[o])
            /\ attempts' = Append(attempts, key)
            /\ printed' = Append(printed, StatusLine(label, result[o]))
            /\ timeouts' = IF IsTimeout(o) THEN timeouts \cup {key} ELSE timeouts
            /\ ppc' = next
            /\ UNCHANGED <<dns_results, osm_results, recommendations, report,
                           praised, pexit>>
       \/ ProberInterrupted(key)

TestTiles ==
    Probe("tiles", "web", "marinetraffic_tiles", "Tile service",
          TileOutcomes, Resp(200, "image"),
          [o \in TileOutcomes |-> test_marinetraffic_tiles(o)])

TestWeb ==
    Probe("web", "aishub", "marinetraffic_web", "Website",
          HttpOutcomes, Resp(200, ""),
          [o \in HttpOutcomes |-> test_marinetraffic_api_simple(o)])

TestAishub ==
    Probe("aishub", "aisstream", "aishub_api", "AISHub.net",
          AishubOutcomes, Resp(200, "json_list"),
          [o \in AishubOutcomes |-> test_aishub_api(o)])

TestAisstream ==
    Probe("aisstream", "osm_main", "aisstream", "AISstream.io",
          HttpOutcomes, Resp(200, ""),
          [o \in HttpOutcomes |-> test_aisstream_websocket(o)])

\* Endpoint, had a failed request been tried again
EndpointRetrying(at, next, name, accepted) ==
    /\ ppc = at
    /\ UNCHANGED monitorVars
    /\ \/ \E o \in HttpOutcomes :
            /\ WithinAnomalies(o, Resp(200, ""))
            /\ anomalies' = CountAnomaly(o, Resp(200, ""))
            /\ osm_results' = Put(osm_results, name, EndpointResult(o, accepted))
            /\ attempts' = Append(attempts, name)
            /\ timeouts' = IF IsTimeout(o) THEN timeouts \cup {name} ELSE timeouts
            /\ ppc' = IF EndpointResult(o, accepted)[1] THEN next ELSE at
            /\ UNCHANGED <<dns_results, test_results, recommendations, printed, report,
                           praised, pexit>>
       \/ ProberInterrupted(name)

\* test_openseamap_api_endpoints: one of its three requests
Endpoint(at, next, name, accepted) ==
    /\ ppc = at
    /\ UNCHANGED monitorVars
    /\ \/ \E o \in HttpOutcomes :
            /\ WithinAnomalies(o, Resp(200, ""))
            /\ anomalies' = CountAnomaly(o, Resp(200, ""))
            /\ osm_results' = Put(osm_results, name, EndpointResult(o, accepted))
            /\ attempts' = Append(attempts, name)
            /\ timeouts' = IF IsTimeout(o) THEN timeouts \cup {name} ELSE timeouts
            /\ ppc' = next
            /\ UNCHANGED <<dns_results, test_results, recommendations, printed, report,
                           praised, pexit>>
       \/ ProberInterrupted(name)

EndpointMainPage == Endpoint("osm_main", "osm_api", "main_page", {200})

EndpointApiDirectory == Endpoint("osm_api", "osm_getais", "api_directory", {200, 403})

EndpointGetAIS == Endpoint("osm_getais", "osm_print", "getAIS_endpoint", {200, 400})

EndpointNames == <<"main_page", "api_directory", "getAIS_endpoint">>

\* main: test_results['openseamap_endpoints'] = osm_results and its status lines
StoreEndpoints ==
    /\ ppc = "osm_print"
    /\ UNCHANGED monitorVars
    /\ test_results' = Put(test_results, "openseamap_endpoints", osm_results)
    /\ printed' = printed \o
          [j \in 1..Len(EndpointNames) |->
             StatusLine(EndpointNames[j], osm_results[EndpointNames[j]])]
    /\ ppc' = "github"
    /\ UNCHANGED <<dns_results, osm_results, recommendations, attempts, anomalies,
                   report, praised, pexit, timeouts>>

\* analyze_github_issues; its line is printed with status INFO
GithubIssues ==
    /\ ppc = "github"
    /\ UNCHANGED monitorVars
    /\ \/ \E o \in GithubOutcomes :
            /\ WithinAnomalies(o, Resp(200, "ais_issues"))
            /\ anomalies' = CountAnomaly(o, Resp(200, "ais_issues"))
            /\ test_results' = Put(test_results, "github_issues", analyze_github_issues(o))
            /\ attempts' = Append(attempts, "github_issues")
            /\ printed' = Append(printed, <<"INFO", "", analyze_github_issues(o)[2]>>)
            /\ timeouts' =
                 IF IsTimeout(o) THEN timeouts \cup {"github_issues"} ELSE timeouts
            /\ ppc' = "recommend"
            /\ UNCHANGED <<dns_results, osm_results, recommendations, report,
                           praised, pexit>>
       \/ ProberInterrupted("github_issues")

Recommend ==
    /\ ppc = "recommend"
    /\ UNCHANGED monitorVars
    /\ recommendations' = generate_recommendations(test_results)
    /\ ppc' = "report"
    /\ UNCHANGED <<dns_results, osm_results, test_results, printed, attempts, anomalies,
                   report, praised, pexit, timeouts>>

\* {'success': v[0], 'message': v[1]}
Serialized(v) == [success |-> v[1], message |-> v[2]]

\* the dict handed to json.dump; openseamap_endpoints is the one value of
\* test_results that is a dict
ReportOf(tr, recs) ==
    [test_results |->
        [k \in DOMAIN tr \ {"openseamap_endpoints"} |-> Serialized(tr[k])],
     openseamap_endpoints |->
        [k \in DOMAIN tr["openseamap_endpoints"] |-> Serialized(tr["openseamap_endpoints"][k])],
     recommendations |-> recs]

WriteProberReport ==
    /\ ppc = "report"
    /\ UNCHANGED monitorVars
    /\ \E o \in Outcomes :
         CASE o = "ok" ->
                /\ report' = ReportOf(test_results, recommendations)
                /\ ppc' = "returned"
                /\ UNCHANGED praised
           [] o = "raise" ->
                /\ praised' = "Exception"
                /\ ppc' = "handler"
                /\ UNCHANGED report
           [] o = "interrupt" ->
                /\ praised' = "KeyboardInterrupt"
                /\ ppc' = "handler"
                /\ UNCHANGED report
    /\ UNCHANGED <<dns_results, osm_results, test_results, recommendations, printed,
                   attempts, anomalies, pexit, timeouts>>

\* ProberExitStatus, had the interrupt been given a status of its own
ProberExitStatusInterrupt130(raised) ==
    IF raised = "KeyboardInterrupt" THEN 130
    ELSE IF raised = "Exception" THEN 1
    ELSE 0

\* the __main__ block: the exit status after main returned or raised
ProberExitStatus(raised) ==
    IF raised = "KeyboardInterrupt" THEN 0
    ELSE IF raised = "Exception" THEN 1
    ELSE 0

ProberExit ==
    /\ ppc \in {"returned", "handler"}
    /\ UNCHANGED monitorVars
    /\ pexit' = ProberExitStatus(praised)
    /\ ppc' = "exited"
    /\ UNCHANGED <<dns_results, osm_results, test_results, recommendations, printed,
                   attempts, anomalies, report, praised, timeouts>>

ProberInit == ProberStart /\ MonitorStart

ProberNext ==
    \/ CheckDns
    \/ TestTiles
    \/ TestWeb
    \/ TestAishub
    \/ TestAisstream
    \/ EndpointMainPage
    \/ EndpointApiDirectory
    \/ EndpointGetAIS
    \/ StoreEndpoints
    \/ GithubIssues
    \/ Recommend
    \/ WriteProberReport
    \/ ProberExit

ProberSpec == ProberInit /\ [][ProberNext]_vars

(***************************************************************************)
(* Either tool: one process is started, the Monitor or the Prober, and     *)
(* runs to its exit while the other one is never started.                  *)
(***************************************************************************)
MonitorIdle == pc = "start"

ProberIdle == ppc = "dns" /\ attempts = <<>>

ToolsInit == ProberStart /\ MonitorStart

ToolsNext ==
    \/ ProberIdle /\ Next
    \/ MonitorIdle /\ ProberNext

ToolsSpec == ToolsInit /\ [][ToolsNext]_vars

(***************************************************************************)
(* Properties.                                                             *)
(***************************************************************************)
\* the log entry at position k of the window is a decodable event of `method`
IsEvent(k, method) ==
    /\ delivered[k].shape = "json"
    /\ delivered[k].method = method

\* the URLs of the model that contain one of the keywords
KeywordUrls == {UrlGetAIS}

\* the entry the for loop is about to process
CurrentLog == Head(logs)

\* C1: the Monitor's exit status is a function of the run outcome: 130 when
\* a KeyboardInterrupt leaves the run, 1 when an exception leaves it, when
\* the session could not be set up or the page not be loaded, 2 when the run
\* completed with failed or blocked requests, 0 when it completed with none;
\* no other status is produced.
ExitCodeContract ==
    pc = "exited" =>
        LET interrupted == propagating = "KeyboardInterrupt"
            uncaught == propagating = "Exception"
            setupFailed == propagating = "none" /\ driver = "None"
            loadFailed == propagating = "none" /\ driver = "session" /\ toggle = "none"
            completed == propagating = "none" /\ analysis # NoAnalysis
        IN  /\ exitCode \in {0, 1, 2, 130}
            /\ interrupted \/ uncaught \/ setupFailed \/ loadFailed \/ completed
            /\ interrupted => exitCode = 130
            /\ (uncaught \/ setupFailed \/ loadFailed) => exitCode = 1
            /\ completed =>
                 IF analysis.failed_requests > 0 \/ analysis.blocked_requests > 0
                 THEN exitCode = 2
                 ELSE exitCode = 0

\* C1 witness: a completed run with one blocked request and no failure exits 2
ExitCodeContractWitness ==
    /\ pc = "exited"
    /\ propagating = "none"
    /\ analysis # NoAnalysis
    /\ analysis.blocked_requests = 1
    /\ analysis.failed_requests = 0
    /\ exitCode = 2

\* C2: the root cause is chosen from the four counts by first match: no
\* request, then blocked, then failed, then successful, else indeterminate.
RootCauseByPriority ==
    analysis # NoAnalysis =>
        LET found == analysis.ais_requests_found
            successful == analysis.successful_requests
            failed == analysis.failed_requests
            blocked == analysis.blocked_requests
            root == analysis.root_cause
        IN  /\ found = 0 => root = RootNotImplemented
            /\ (found > 0 /\ blocked >= 1) => root = RootAuthentication
            /\ (found > 0 /\ blocked = 0 /\ failed >= 1) => root = RootConnectivity
            /\ (found > 0 /\ blocked = 0 /\ failed = 0 /\ successful >= 1)
                  => root = RootRendering
            /\ (found > 0 /\ blocked = 0 /\ failed = 0 /\ successful = 0)
                  => root = RootIndeterminate

\* C2 witness: blocked wins over failed and successful requests
RootCauseByPriorityWitness ==
    /\ analysis # NoAnalysis
    /\ analysis.blocked_requests >= 1
    /\ analysis.failed_requests >= 1
    /\ analysis.successful_requests >= 1
    /\ analysis.root_cause = RootAuthentication

\* C3: a session that was acquired is released before the process exits, on
\* every exit path, and driver.quit is called at most once.
SessionReleasedOnce ==
    /\ quitCalls <= 1
    /\ driver = "None" => quitCalls = 0
    /\ (pc \in {"main", "exited"} /\ driver = "session") => quitCalls = 1

\* C3 witness: a run interrupted during the capture window has quit its session
SessionReleasedOnceWitness ==
    /\ pc = "exited"
    /\ driver = "session"
    /\ exitCode = 130
    /\ toggle # "none"
    /\ analysis = NoAnalysis
    /\ quitCalls = 1

\* C4: once the session is set up and the page loaded, an uninterrupted run
\* reaches the analysis, whatever the later external calls raise.
OnlySetupAndLoadAbort ==
    (pc = "exited" /\ toggle # "none" /\ ~kbd) => analysis # NoAnalysis

\* the records that a 'loading failed' event at position k refers to
FailedAfter(req) ==
    {k \in DOMAIN delivered :
        /\ k > req.timestamp
        /\ IsEvent(k, "Network.loadingFailed")
        /\ delivered[k].requestId = req.requestId}

Last(S) == CHOOSE k \in S : \A m \in S : m <= k

\* C5 as stated: at the end of the window a record whose request was followed
\* by a 'loading failed' event of the same identifier has failed = true and a
\* non-empty error string.
FailedHasNonEmptyError ==
    pc = "js_errors" =>
        \A i \in DOMAIN relevant_requests :
            FailedAfter(relevant_requests[i]) # {} =>
                /\ "failed" \in DOMAIN relevant_requests[i]
                /\ relevant_requests[i].failed
                /\ relevant_requests[i].error # ""

\* C5 as amended: such a record has failed = true and carries the error text
\* of the last such event, the empty string when that event has none.
FailedHasEventError ==
    pc = "js_errors" =>
        \A i \in DOMAIN relevant_requests :
            FailedAfter(relevant_requests[i]) # {} =>
                /\ "failed" \in DOMAIN relevant_requests[i]
                /\ relevant_requests[i].failed
                /\ "error" \in DOMAIN relevant_requests[i]
                /\ relevant_requests[i].error =
                      delivered[Last(FailedAfter(relevant_requests[i]))].errorText

\* C5 witness: a record marked failed with the provider's error text
FailedHasEventErrorWitness ==
    /\ pc = "js_errors"
    /\ \E i \in DOMAIN relevant_requests :
         /\ FailedAfter(relevant_requests[i]) # {}
         /\ "failed" \in DOMAIN relevant_requests[i]
         /\ relevant_requests[i].error = "net::ERR_FAILED"

\* the entry being processed is a response or failure event that matches no record
UnmatchedEvent ==
    /\ pc = "capture_for"
    /\ CurrentLog.shape = "json"
    /\ CurrentLog.method \in {"Network.responseReceived", "Network.loadingFailed"}
    /\ \A i \in DOMAIN relevant_requests :
          relevant_requests[i].requestId # CurrentLog.requestId

\* C6: a 'response received' or 'loading failed' event whose identifier is
\* that of no record is dropped: the records stay as they are, no exception
\* leaves the loop and the loop goes on.
UnmatchedEventDropped ==
    [][UnmatchedEvent =>
          /\ relevant_requests' = relevant_requests
          /\ propagating' = "none"
          /\ pc' \in {"capture_for", "capture_loop"}]_vars

\* C6 witness: a window that ended with one record after it processed a
\* response and a failure for another identifier
UnmatchedEventDroppedWitness ==
    /\ pc = "js_errors"
    /\ Len(relevant_requests) = 1
    /\ DOMAIN relevant_requests[1] = {"timestamp", "url", "method", "requestId"}
    /\ \E k \in DOMAIN delivered :
         /\ k > relevant_requests[1].timestamp
         /\ IsEvent(k, "Network.responseReceived")
         /\ delivered[k].url \in KeywordUrls
         /\ delivered[k].requestId # relevant_requests[1].requestId
    /\ \E k \in DOMAIN delivered :
         /\ k > relevant_requests[1].timestamp
         /\ IsEvent(k, "Network.loadingFailed")
         /\ delivered[k].requestId # relevant_requests[1].requestId

\* C7: no two records of a capture window carry the same request identifier.
UniqueRequestIds ==
    \A i, j \in DOMAIN relevant_requests :
        i # j => relevant_requests[i].requestId # relevant_requests[j].requestId

CreationFields == {"timestamp", "url", "method", "requestId"}
UpdateFields == {"status", "status_text", "content_type", "failed", "error"}

\* C8: the record sequence only grows at its end; a record changes only while
\* a response or failure event of its identifier is processed, and only in
\* status, status_text, content_type, failed and error; no field is removed.
RecordsOnlyGrow ==
    [][/\ Len(relevant_requests') >= Len(relevant_requests)
       /\ \A i \in DOMAIN relevant_requests :
            /\ DOMAIN relevant_requests[i] \subseteq DOMAIN relevant_requests'[i]
            /\ DOMAIN relevant_requests'[i] \subseteq CreationFields \cup UpdateFields
            /\ \A f \in CreationFields :
                  relevant_requests'[i][f] = relevant_requests[i][f]
            /\ relevant_requests'[i] # relevant_requests[i] =>
                  /\ pc = "capture_for"
                  /\ CurrentLog.method \in
                        {"Network.responseReceived", "Network.loadingFailed"}
                  /\ CurrentLog.requestId = relevant_requests[i].requestId]_vars

\* C8 witness: of two records the first got a response after the second was
\* appended, the second stayed as created
RecordsOnlyGrowWitness ==
    /\ Len(relevant_requests) = 2
    /\ DOMAIN relevant_requests[1] =
          CreationFields \cup {"status", "status_text", "content_type"}
    /\ DOMAIN relevant_requests[2] = CreationFields
    /\ IsEvent(Len(delivered), "Network.responseReceived")
    /\ logs = <<>>
    /\ relevant_requests[1].timestamp < relevant_requests[2].timestamp

\* number of decodable 'request sent' events with a keyword URL in the window
MatchingRequestsSent ==
    Cardinality({k \in DOMAIN delivered :
                    /\ IsEvent(k, "Network.requestWillBeSent")
                    /\ delivered[k].url \in KeywordUrls})

\* C9: ais_requests_found is the number of well-formed 'request sent' events
\* with a keyword URL in the window; a window without log entries gives 0
\* and the 'not implemented' root cause.
RequestsFoundCountsSentEvents ==
    analysis # NoAnalysis =>
        /\ analysis.ais_requests_found = MatchingRequestsSent
        /\ delivered = <<>> =>
              /\ analysis.ais_requests_found = 0
              /\ analysis.root_cause = RootNotImplemented

\* C9 witness: a window of one matching request and one entry that is none
RequestsFoundCountsSentEventsWitness ==
    /\ analysis # NoAnalysis
    /\ Len(delivered) = 2
    /\ MatchingRequestsSent = 1
    /\ analysis.ais_requests_found = 1

\* C10 as stated: the Prober exits with status 0 on every run.
ProberAlwaysExitsZero ==
    ppc = "exited" => pexit = 0

\* C10 as amended: the Prober exits with status 0 whatever the probes found
\* and when it is interrupted, and with status 1 when an exception leaves main.
ProberExitsZeroUnlessException ==
    ppc = "exited" =>
        /\ praised = "Exception" => pexit = 1
        /\ praised # "Exception" => pexit = 0

\* C10 witness: a run whose tile check failed wrote its report and exited 0
ProberExitsZeroUnlessExceptionWitness ==
    /\ ppc = "exited"
    /\ report # NoReport
    /\ ~test_results["marinetraffic_tiles"][1]
    /\ pexit = 0

\* generate_recommendations has returned
Recommended == ppc \in {"report", "returned"} \/ report # NoReport

\* the recommendation strings of the list
Recommendation(rec) == \E i \in DOMAIN recommendations : recommendations[i] = rec

\* C11: the list holds the 'server issue' message exactly when none of the
\* three application endpoints has success = true.
ServerIssueWhenNoEndpoint ==
    Recommended =>
        (Recommendation(RecServer) <=>
            \A j \in DOMAIN EndpointNames :
                ~test_results["openseamap_endpoints"][EndpointNames[j]][1])

\* C12: the list is not empty, holds the tile message exactly when the tile
\* check failed, a 'consider' message exactly when that provider's check
\* succeeded, and the default message exactly when it holds nothing else.
RecommendationsFollowResults ==
    Recommended =>
        /\ Len(recommendations) > 0
        /\ Recommendation(RecTiles) <=> ~test_results["marinetraffic_tiles"][1]
        /\ Recommendation(RecAishub) <=> test_results["aishub_api"][1]
        /\ Recommendation(RecAisstream) <=> test_results["aisstream"][1]
        /\ Recommendation(RecDefault) <=>
              \A i \in DOMAIN recommendations : recommendations[i] = RecDefault

\* C12 witness: the tile check failed and AISstream answered, as in the
\* recorded run, and the list is these two messages
RecommendationsFollowResultsWitness ==
    /\ Recommended
    /\ ~test_results["marinetraffic_tiles"][1]
    /\ ~test_results["aishub_api"][1]
    /\ test_results["aisstream"][1]
    /\ recommendations = <<RecTiles, RecAisstream>>

\* the domains whose DNS check failed
DnsFailed == {j \in DOMAIN CriticalDomains : ~dns_results[CriticalDomains[j]][1]}

\* the status a check result is shown with
Mark(success) == IF success THEN "OK" ELSE "FAIL"

\* C13: when the resolver fails for exactly one of the four domains, the
\* printed lines and the JSON report mark that domain FAIL and the other
\* three OK.
OneDnsFailureReported ==
    (report # NoReport /\ Cardinality(DnsFailed) = 1) =>
        \A j \in DOMAIN CriticalDomains :
            LET domain == CriticalDomains[j]
                mark == Mark(j \notin DnsFailed)
            IN  /\ \E i \in DOMAIN printed :
                      printed[i][1] = mark /\ printed[i][2] = domain
                /\ domain \in DOMAIN report.test_results
                /\ Mark(report.test_results[domain].success) = mark

\* the result stored for a check
ResultOf(name) ==
    IF \E j \in DOMAIN EndpointNames : EndpointNames[j] = name
    THEN osm_results[name]
    ELSE test_results[name]

\* the parts of a message that name a timeout
TimeoutTexts ==
    {"Request timeout (10s)", "Read timed out. (read timeout=10)",
     "(Caused by ConnectTimeoutError(connect timeout=10))"}

NamesTimeout(message) == \E i \in DOMAIN message : message[i] \in TimeoutTexts

\* C14: a check whose request timed out has a result with success = false
\* and a message that names the timeout.
TimeoutNamedInMessage ==
    \A name \in timeouts :
        /\ ~ResultOf(name)[1]
        /\ NamesTimeout(ResultOf(name)[2])

\* the checks of one Prober run, in the order of main
Battery ==
    CriticalDomains \o
    <<"marinetraffic_tiles", "marinetraffic_web", "aishub_api", "aisstream">> \o
    EndpointNames \o <<"github_issues">>

\* the Prober went through all its checks without being interrupted in one
AllChecksDone ==
    \/ ppc \in {"recommend", "report", "returned"}
    \/ report # NoReport
    \/ praised = "Exception"

\* the checks that ended in a failure result so far
FailedChecks ==
    {k \in DOMAIN dns_results : ~dns_results[k][1]}
        \cup {k \in DOMAIN test_results \ {"openseamap_endpoints"} : ~test_results[k][1]}
        \cup {k \in DOMAIN osm_results : ~osm_results[k][1]}

\* C15: the checks attempted so far are always the first ones of the fixed
\* battery, each once and in order, whatever the results of the earlier
\* ones, and a run that is not interrupted attempts the whole battery.
BatteryOnceInOrder ==
    /\ Len(attempts) <= Len(Battery)
    /\ \A i \in DOMAIN attempts : attempts[i] = Battery[i]
    /\ \A i, j \in DOMAIN attempts : attempts[i] = attempts[j] => i = j
    /\ AllChecksDone => attempts = Battery

BatteryOnceInOrderWitness ==
    /\ ppc = "exited"
    /\ praised = "none"
    /\ attempts = Battery
    /\ Cardinality(FailedChecks) = MaxAnomalies
    /\ "map.openseamap.org" \in FailedChecks
    /\ "marinetraffic_tiles" \in FailedChecks
    /\ "marinetraffic_tiles" \in timeouts
    /\ "main_page" \in FailedChecks

\* the records of the analysis that carry the failed flag
Flagged(reqs) == {i \in DOMAIN reqs : "failed" \in DOMAIN reqs[i] /\ reqs[i].failed}

\* the records without the failed flag whose status is in `statuses`
Answered(reqs, statuses) ==
    {i \in DOMAIN reqs \ Flagged(reqs) :
        "status" \in DOMAIN reqs[i] /\ reqs[i].status \in statuses}

\* the records with neither a failed flag nor a status
Unanswered(reqs) ==
    {i \in DOMAIN reqs \ Flagged(reqs) : "status" \notin DOMAIN reqs[i]}

SuccessStatuses == 200..299
BlockedStatuses == {401, 403}
OtherStatuses == (0..599) \ (SuccessStatuses \cup BlockedStatuses)

\* C20: each record is counted in at most one of the three counts; a record
\* with the failed flag is counted as failed whatever its status, a record
\* with neither a failed flag nor a status in none, and there is one finding
\* for each failed or blocked record.
EachRecordCountedOnce ==
    analysis # NoAnalysis =>
        LET reqs == analysis.raw_requests
            successful == analysis.successful_requests
            failed == analysis.failed_requests
            blocked == analysis.blocked_requests
        IN  /\ successful + failed + blocked <= analysis.ais_requests_found
            /\ successful + failed + blocked = Len(reqs) - Cardinality(Unanswered(reqs))
            /\ successful = Cardinality(Answered(reqs, SuccessStatuses))
            /\ blocked = Cardinality(Answered(reqs, BlockedStatuses))
            /\ failed = Cardinality(Flagged(reqs))
                          + Cardinality(Answered(reqs, OtherStatuses))
            /\ Len(analysis.findings) = failed + blocked

\* C20 witness: failed records with a 2xx and a 403 status next to a record
\* without any response
EachRecordCountedOnceWitness ==
    /\ analysis # NoAnalysis
    /\ LET reqs == analysis.raw_requests
       IN  /\ \E i \in Flagged(reqs) : "status" \in DOMAIN reqs[i] /\ reqs[i].status = 200
           /\ \E i \in Flagged(reqs) : "status" \in DOMAIN reqs[i] /\ reqs[i].status = 403
           /\ Unanswered(reqs) # {}
    /\ analysis.ais_requests_found = 3
    /\ analysis.failed_requests = 2
    /\ analysis.successful_requests = 0
    /\ analysis.blocked_requests = 0
    /\ Len(analysis.findings) = 2

\* the run goes on to the capture window without the layer being toggled
ObserveOnly ==
    /\ pc' = "capture_loop"
    /\ toggle' = "skipped"
    /\ propagating' = "none"
    /\ results' = "none"

\* a KeyboardInterrupt leaves run_full_diagnostic through its finally clause
InterruptLeaves == pc' = "finally" /\ propagating' = "KeyboardInterrupt"

\* C19: the strategies are tried one after the other from the first; the
\* first one that finds an element ends the search with that element; when
\* none matches or the lookup or the click raises, the run goes on to the
\* capture window with the layer not toggled.
FirstMatchingStrategy ==
    [][/\ pc = "view_menu" => (pc' = "find_checkbox" /\ sel' = 1)
       /\ pc = "find_checkbox" =>
            /\ sel \in 1..NumSelectors
            /\ ais_checkbox = 0
            /\ \/ /\ pc' = "find_checkbox"
                  /\ sel < NumSelectors
                  /\ sel' = sel + 1
                  /\ ais_checkbox' = 0
               \/ /\ pc' = "click"
                  /\ ais_checkbox' = sel
               \/ ObserveOnly
               \/ InterruptLeaves
       /\ pc = "click" =>
            /\ ais_checkbox \in 1..NumSelectors
            /\ \/ /\ pc' = "capture_loop"
                  /\ toggle' \in {"toggled", "skipped"}
                  /\ propagating' = "none"
                  /\ results' = "none"
               \/ InterruptLeaves
      ]_vars

\* C19 witness: the third strategy found the element after two that did not
FirstMatchingStrategyWitness ==
    /\ pc = "click"
    /\ ais_checkbox = 3
    /\ sel = 0
    /\ toggle = "none"

\* the place of a phase in the linear order of the run
PhaseRank(p) ==
    CASE p = "not started" -> 0
      [] p = "session active" -> 1
      [] p = "navigated" -> 2
      [] p \in {"layer toggled", "toggle skipped"} -> 3
      [] p = "capturing" -> 4
      [] p = "analyzed" -> 5
      [] p = "session released" -> 6

Entered(p) == \E i \in DOMAIN phases : phases[i] = p

\* C18: the phases of a Monitor run are entered in the linear order, none
\* twice and none after a later one; capturing only after navigation,
\* analyzed only after the capture window, and session released last in
\* every run that acquired a session.
PhasesOnlyForward ==
    /\ phases[1] = "not started"
    /\ \A i, j \in DOMAIN phases : i < j => PhaseRank(phases[i]) < PhaseRank(phases[j])
    /\ Entered("session active") <=> driver = "session"
    /\ Entered("layer toggled") <=> toggle = "toggled"
    /\ Entered("toggle skipped") <=> toggle = "skipped"
    /\ Entered("analyzed") <=> analysis # NoAnalysis
    /\ Entered("session released") <=> quitCalls > 0
    /\ Entered("navigated") => Entered("session active")
    /\ Entered("capturing") => Entered("navigated")
    /\ Entered("analyzed") =>
          /\ Entered("capturing")
          /\ logs = <<>>
          /\ pc \in {"report", "finally", "main", "exited"}
    /\ (pc \in {"main", "exited"} /\ driver = "session") =>
          phases[Len(phases)] = "session released"

\* C18 witness: a run that went through every phase
PhasesOnlyForwardWitness ==
    /\ pc = "exited"
    /\ phases = <<"not started", "session active", "navigated", "layer toggled",
                  "capturing", "analyzed", "session released">>
    /\ delivered # <<>>

\* C16 as stated: every run that is not interrupted has written one report
\* when the process exits, the Monitor before it releases the session.
ReportInEveryUninterruptedRun ==
    /\ (pc = "exited" /\ ~kbd) => reportsWritten = 1
    /\ (ppc = "exited" /\ praised # "KeyboardInterrupt") => report # NoReport
    /\ pc = "report" => quitCalls = 0

\* C16 as amended: no run writes more than one report; the Monitor writes
\* it after the analysis and before the session is released, so every run
\* that exits with status 0 or 2 has one and a run whose setup or page load
\* failed has none; the Prober has written it whenever main returned.
ReportWhenRunCompletes ==
    /\ reportsWritten <= 1
    /\ reportsWritten = 1 => analysis # NoAnalysis
    /\ pc = "report" => (quitCalls = 0 /\ reportsWritten = 0)
    /\ (reportsWritten = 1 /\ quitCalls = 0) => pc = "finally"
    /\ results = "analysis" => reportsWritten = 1
    /\ results \in {"error_webdriver", "error_load"} => reportsWritten = 0
    /\ (pc = "exited" /\ exitCode \in {0, 2}) => reportsWritten = 1
    /\ report # NoReport =>
          /\ ppc \in {"returned", "exited"}
          /\ praised = "none"
          /\ report = ReportOf(test_results, recommendations)
    /\ (ppc \in {"returned", "exited"} /\ praised = "none") => report # NoReport

\* C16 witness: a run whose page load failed exits without a report after
\* it released the session
ReportWhenRunCompletesWitness ==
    /\ pc = "exited"
    /\ ~kbd
    /\ results = "error_load"
    /\ quitCalls = 1
    /\ reportsWritten = 0
    /\ exitCode = 1

\* the statuses the Prober exits with when it is not interrupted
UninterruptedProberCodes == {ProberExitStatus("none"), ProberExitStatus("Exception")}

\* C17: a run that received a keyboard interrupt exits with the status kept
\* for interruption, 130 for the Monitor, which no other run exits with.
InterruptHasDedicatedStatus ==
    /\ pc = "exited" => (kbd <=> exitCode = 130)
    /\ (ppc = "exited" /\ praised = "KeyboardInterrupt") =>
          pexit \notin UninterruptedProberCodes

====
